---- MODULE Spec2Model ----
(***************************************************************************)
(* GPX Heatmap: rebuild coordination and place names (App component), the  *)
(* gap-based segmentation engine (splitTrack), and the pure functions of   *)
(* ingestion and rendering (parseGPX, computeTrackStats, classifyActivity, *)
(* the cell loop of buildOverlay).                                         *)
(*                                                                         *)
(* Conventions.  Indices are the 0-based indices of the JavaScript source; *)
(* a sequence element i of the source is element i+1 here.  A track point  *)
(* is [lat, lon, time]: time is Date.parse(point.time) in seconds, or NaN  *)
(* when the timestamp is missing or unparseable.  Points lie on one        *)
(* meridian and lat is counted in metres of arc, so that the great-circle  *)
(* distance of two points is the absolute difference of their lat.         *)
(***************************************************************************)
EXTENDS Integers, Sequences, FiniteSets, TLC

VARIABLES
  sessions,       \* React state: list of session records, newest first
  sessionsRef,    \* sessionsRef.current, copied from sessions by the effect
  rebuildSeqRef,  \* rebuildSeqRef.current: id -> [segments, splitSeq]
  builds,         \* overlay rebuilds started by scheduleOverlayRebuild, not yet completed
  splits,         \* updateSegmentGap / mergeSegments calls awaiting buildSegments
  files,          \* files of the batch handleFiles has still to process
  issued,         \* how many rebuilds and segmentations the run has started (bounds the run)
  split,          \* one run of splitTrack: its arguments, locals and result
  geoCacheRef,    \* geoCacheRef.current: coordinate key -> place name
  lookups,        \* reverseGeocode calls of resolvePlaceName that have not settled
  call,           \* one call of a pure function: its arguments and its result
  effectsDeferred, \* whether a handler can run between a state update and its effect
  geocodeCalls,   \* history: the keys reverseGeocode was called for, in order
  splitRequests   \* history: id -> the last updateSegmentGap / mergeSegments request

vars == <<sessions, sessionsRef, rebuildSeqRef, builds, splits, files, issued, split,
          geoCacheRef, lookups, call, effectsDeferred, geocodeCalls, splitRequests>>

-----------------------------------------------------------------------------
(* Numbers of JavaScript that are not integers.                            *)
NaN == -1000001
Infinity == 1000000
null == -2

DEFAULT_SEGMENT_GAP_MINUTES == 5
INACTIVITY_SPEED_THRESHOLD_KMH == 1

isFinite(v) == v # NaN /\ v # Infinity

Min(a, b) == IF a <= b THEN a ELSE b
Max(a, b) == IF a >= b THEN a ELSE b
Abs(a) == IF a >= 0 THEN a ELSE 0 - a

clamp(v, a, b) == Min(b, Max(a, v))

(* Distance in metres of two points of the meridian.                       *)
haversineDistance(p, q) == Abs(q.lat - p.lat)

(* points.slice(a, b) and points.slice(a)                                  *)
slice(s, a, b) == SubSeq(s, a + 1, b)
sliceFrom(s, a) == SubSeq(s, a + 1, Len(s))

-----------------------------------------------------------------------------
(* splitTrack                                                              *)

(* elapsed seconds of the pair (i-1, i); NaN when a timestamp is not finite *)
hasTime(pts, i) == isFinite(pts[i].time) /\ isFinite(pts[i + 1].time)
deltaSec(pts, i) == pts[i + 1].time - pts[i].time

(* speedKmh <= INACTIVITY_SPEED_THRESHOLD_KMH, for a pair with deltaSec > 0:  *)
(* (metres / 1000) / (seconds / 3600) <= threshold                          *)
isInactiveStep(pts, i) ==
  haversineDistance(pts[i], pts[i + 1]) * 3600
     <= INACTIVITY_SPEED_THRESHOLD_KMH * 1000 * deltaSec(pts, i)

normalizedGap(gapMinutes) ==
  IF isFinite(gapMinutes) /\ gapMinutes > 0 THEN gapMinutes ELSE Infinity

inactivitySeconds(gapMinutes) ==
  IF normalizedGap(gapMinutes) = Infinity THEN Infinity
  ELSE normalizedGap(gapMinutes) * 60

(* the locals of splitTrack before the loop                                *)
splitInit ==
  [i |-> 1, segments |-> <<>>, segmentStartIdx |-> 0,
   inactivityStartIdx |-> null, inactivityAccumSec |-> 0,
   inactivityQualified |-> FALSE]

(* splitAnomaly cutting on every non-positive elapsed time, zero included  *)
splitAnomaly_cutOnZero(pts, st) ==
  LET i == st.i
      cut == hasTime(pts, i) /\ deltaSec(pts, i) <= 0 /\ i > st.segmentStartIdx
  IN [st EXCEPT
        !.segments = IF cut THEN Append(@, slice(pts, st.segmentStartIdx, i)) ELSE @,
        !.segmentStartIdx = IF cut THEN i ELSE @,
        !.inactivityStartIdx = null,
        !.inactivityAccumSec = 0,
        !.inactivityQualified = FALSE,
        !.i = i + 1]

(* the branch of an adjacent pair without a positive elapsed time          *)
splitAnomaly(pts, st) ==
  LET i == st.i
      cut == hasTime(pts, i) /\ deltaSec(pts, i) < 0 /\ i > st.segmentStartIdx
  IN [st EXCEPT
        !.segments = IF cut THEN Append(@, slice(pts, st.segmentStartIdx, i)) ELSE @,
        !.segmentStartIdx = IF cut THEN i ELSE @,
        !.inactivityStartIdx = null,
        !.inactivityAccumSec = 0,
        !.inactivityQualified = FALSE,
        !.i = i + 1]

(* splitInactive qualifying a run only strictly above the gap              *)
splitInactive_strict(pts, secs, st) ==
  LET i == st.i
      accum == IF st.inactivityStartIdx = null THEN deltaSec(pts, i)
               ELSE st.inactivityAccumSec + deltaSec(pts, i)
  IN [st EXCEPT
        !.inactivityStartIdx = IF @ = null THEN i - 1 ELSE @,
        !.inactivityAccumSec = accum,
        !.inactivityQualified = @ \/ (accum > secs),
        !.i = i + 1]

(* the branch of a pair at or below the speed threshold                    *)
splitInactive(pts, secs, st) ==
  LET i == st.i
      accum == IF st.inactivityStartIdx = null THEN deltaSec(pts, i)
               ELSE st.inactivityAccumSec + deltaSec(pts, i)
  IN [st EXCEPT
        !.inactivityStartIdx = IF @ = null THEN i - 1 ELSE @,
        !.inactivityAccumSec = accum,
        !.inactivityQualified = @ \/ (accum >= secs),
        !.i = i + 1]

(* splitActive restarting the next segment at the start of the break       *)
splitActive_overlap(pts, st) ==
  LET i == st.i
      exit == st.inactivityQualified /\ st.inactivityStartIdx # null
      breakStart == st.inactivityStartIdx
  IN [st EXCEPT
        !.segments = IF exit /\ breakStart > st.segmentStartIdx
                     THEN Append(@, slice(pts, st.segmentStartIdx, breakStart + 1))
                     ELSE @,
        !.segmentStartIdx = IF exit THEN breakStart ELSE @,
        !.inactivityStartIdx = null,
        !.inactivityAccumSec = 0,
        !.inactivityQualified = FALSE,
        !.i = i + 1]

(* the branch of a pair above the speed threshold                          *)
splitActive(pts, st) ==
  LET i == st.i
      exit == st.inactivityQualified /\ st.inactivityStartIdx # null
      breakStart == st.inactivityStartIdx
  IN [st EXCEPT
        !.segments = IF exit /\ breakStart > st.segmentStartIdx
                     THEN Append(@, slice(pts, st.segmentStartIdx, breakStart + 1))
                     ELSE @,
        !.segmentStartIdx = IF exit THEN i ELSE @,
        !.inactivityStartIdx = null,
        !.inactivityAccumSec = 0,
        !.inactivityQualified = FALSE,
        !.i = i + 1]

(* one iteration of the for loop, for the pair (st.i - 1, st.i)            *)
splitStep(pts, secs, st) ==
  IF ~hasTime(pts, st.i) \/ deltaSec(pts, st.i) <= 0 THEN splitAnomaly(pts, st)
  ELSE IF isInactiveStep(pts, st.i) THEN splitInactive(pts, secs, st)
  ELSE splitActive(pts, st)

(* splitFinish without the fallback to the whole track                     *)
splitFinish_noFallback(pts, st) ==
  IF st.inactivityQualified /\ st.inactivityStartIdx # null
  THEN IF st.inactivityStartIdx > st.segmentStartIdx
       THEN Append(st.segments, slice(pts, st.segmentStartIdx, st.inactivityStartIdx + 1))
       ELSE st.segments
  ELSE IF st.segmentStartIdx < Len(pts)
       THEN Append(st.segments, sliceFrom(pts, st.segmentStartIdx))
       ELSE st.segments

(* splitFinish taking the tail from one point too far, unguarded            *)
splitFinish_tailOffByOne(pts, st) ==
  LET segs ==
        IF st.inactivityQualified /\ st.inactivityStartIdx # null
        THEN IF st.inactivityStartIdx > st.segmentStartIdx
             THEN Append(st.segments, slice(pts, st.segmentStartIdx, st.inactivityStartIdx + 1))
             ELSE st.segments
        ELSE Append(st.segments, sliceFrom(pts, st.segmentStartIdx + 1))
  IN IF Len(segs) > 0 THEN segs ELSE <<pts>>

(* the code after the loop: the last segment and the returned list         *)
splitFinish(pts, st) ==
  LET segs ==
        IF st.inactivityQualified /\ st.inactivityStartIdx # null
        THEN IF st.inactivityStartIdx > st.segmentStartIdx
             THEN Append(st.segments, slice(pts, st.segmentStartIdx, st.inactivityStartIdx + 1))
             ELSE st.segments
        ELSE IF st.segmentStartIdx < Len(pts)
             THEN Append(st.segments, sliceFrom(pts, st.segmentStartIdx))
             ELSE st.segments
  IN IF Len(segs) > 0 THEN segs ELSE <<pts>>

RECURSIVE splitLoop(_, _, _)
splitLoop(pts, secs, st) ==
  IF st.i < Len(pts) THEN splitLoop(pts, secs, splitStep(pts, secs, st)) ELSE st

splitTrack(pts, gapMinutes) ==
  IF Len(pts) = 0 THEN <<>>
  ELSE splitFinish(pts, splitLoop(pts, inactivitySeconds(gapMinutes), splitInit))

-----------------------------------------------------------------------------
(* A run of splitTrack, one loop iteration per step.                       *)

MaxLen == 4

TimeValues == {NaN, 0, 60, 120, 180}
LatValues == {0, 50}
GapValues == {1, 3, 0, Infinity}

TrackPoints == [lat : LatValues, lon : {0}, time : TimeValues]
Tracks == UNION {[1..n -> TrackPoints] : n \in 1..MaxLen}

splitIdle == [pc |-> "idle"]

(* no call of a pure function is being followed                            *)
callIdle == [pc |-> "idle"]

SplitCall ==
  /\ split.pc = "start"
  /\ split' = [split EXCEPT !.pc = "loop", !.st = splitInit]

SplitIterate ==
  /\ split.pc = "loop"
  /\ split.st.i < Len(split.points)
  /\ split' = [split EXCEPT
                 !.st = splitStep(split.points, inactivitySeconds(split.gapMinutes), @)]

SplitReturn ==
  /\ split.pc = "loop"
  /\ split.st.i >= Len(split.points)
  /\ split' = [split EXCEPT !.pc = "done",
                            !.result = splitFinish(split.points, split.st)]

InitSplit ==
  /\ sessions = <<>>
  /\ sessionsRef = <<>>
  /\ rebuildSeqRef = <<>>
  /\ builds = <<>>
  /\ splits = <<>>
  /\ files = <<>>
  /\ issued = [rebuilds |-> 0, splits |-> 0]
  /\ geoCacheRef = <<>>
  /\ lookups = <<>>
  /\ call = callIdle
  /\ effectsDeferred = FALSE
  /\ geocodeCalls = <<>>
  /\ splitRequests = <<>>
  /\ \E pts \in Tracks, g \in GapValues :
        split = [pc |-> "start", points |-> pts, gapMinutes |-> g,
                 st |-> splitInit, result |-> <<>>]

NextSplit ==
  /\ (SplitCall \/ SplitIterate \/ SplitReturn)
  /\ UNCHANGED <<sessions, sessionsRef, rebuildSeqRef, builds, splits, files, issued,
                 geoCacheRef, lookups, call,
                 effectsDeferred, geocodeCalls, splitRequests>>

SpecSplit == InitSplit /\ [][NextSplit]_vars

-----------------------------------------------------------------------------
(* Properties of splitTrack, stated on the finished run.                   *)

splitDone == split.pc = "done"

(* The pair (i-1, i) is a low-speed step: both timestamps finite, positive  *)
(* elapsed time, speed at or below the threshold.                           *)
lowSpeedPair(pts, i) ==
  hasTime(pts, i) /\ deltaSec(pts, i) > 0 /\ isInactiveStep(pts, i)

(* Points a..b (0-based) form a low-speed run: every pair inside it is a    *)
(* low-speed step.  Its accumulated time is time[b] - time[a].              *)
lowSpeedRun(pts, a, b) ==
  /\ 0 <= a /\ a < b /\ b < Len(pts)
  /\ \A i \in (a + 1)..b : lowSpeedPair(pts, i)

qualifiedRun(pts, secs, a, b) ==
  lowSpeedRun(pts, a, b) /\ pts[b + 1].time - pts[a + 1].time >= secs

(* Point p lies inside a qualified inactivity break.                       *)
inQualifiedBreak(pts, secs, p) ==
  \E a \in 0..p, b \in p..(Len(pts) - 1) : qualifiedRun(pts, secs, a, b)

(* segs[k..] are index ranges of pts that start at or after index from, in  *)
(* increasing order and disjoint, and every index they skip lies inside a   *)
(* qualified break.                                                         *)
RECURSIVE coversFrom(_, _, _, _, _)
coversFrom(pts, secs, segs, k, from) ==
  IF k > Len(segs)
  THEN \A p \in from..(Len(pts) - 1) : inQualifiedBreak(pts, secs, p)
  ELSE \E a \in from..(Len(pts) - Len(segs[k])) :
          /\ Len(segs[k]) > 0
          /\ slice(pts, a, a + Len(segs[k])) = segs[k]
          /\ \A p \in from..(a - 1) : inQualifiedBreak(pts, secs, p)
          /\ coversFrom(pts, secs, segs, k + 1, a + Len(segs[k]))

(* C6: with an infinite gap splitTrack returns exactly one segment, the     *)
(* whole track, whatever the timestamps of the track.                       *)
C6_InfiniteGapWholeTrack ==
  (splitDone /\ split.gapMinutes = Infinity) => split.result = <<split.points>>

(* C7: for a non-empty track and any gap, splitTrack returns at least one   *)
(* segment and every returned segment has at least one point.               *)
C7_SegmentsNonEmpty ==
  splitDone =>
    /\ Len(split.result) >= 1
    /\ \A k \in 1..Len(split.result) : Len(split.result[k]) >= 1

(* C7 witness: a track that is one qualified break from its first point to  *)
(* its last, where the loop has pushed no segment at all.                   *)
C7_Witness ==
  /\ splitDone
  /\ split.st.segments = <<>>
  /\ split.st.inactivityQualified
  /\ split.st.inactivityStartIdx = 0
  /\ Len(split.points) >= 3

(* C8: the returned segments are index ranges of the track, in increasing   *)
(* order and disjoint, and every point in none of them lies inside a        *)
(* qualified inactivity break.                                              *)
C8_ContiguousNoDuplicates ==
  splitDone =>
    coversFrom(split.points, inactivitySeconds(split.gapMinutes), split.result, 1, 0)

(* C8 witness: two segments returned and an interior point dropped.         *)
C8_Witness ==
  /\ splitDone
  /\ Len(split.result) = 2
  /\ Len(split.result[1]) + Len(split.result[2]) < Len(split.points)
  /\ split.result[2] = sliceFrom(split.points, Len(split.points) - Len(split.result[2]))

(* The timestamps of the track are all finite and strictly increasing.      *)
strictlyIncreasing(pts) ==
  \A i \in 1..(Len(pts) - 1) : hasTime(pts, i) /\ deltaSec(pts, i) > 0

(* Points a..b are a maximal low-speed run with a faster step on each side. *)
enclosedRun(pts, a, b) ==
  /\ lowSpeedRun(pts, a, b)
  /\ a >= 1 /\ ~lowSpeedPair(pts, a)
  /\ b + 1 < Len(pts) /\ ~lowSpeedPair(pts, b + 1)

(* a..b is the only maximal low-speed run of the track that is qualified.   *)
onlyQualifiedRun(pts, secs, a, b) ==
  /\ enclosedRun(pts, a, b)
  /\ qualifiedRun(pts, secs, a, b)
  /\ \A c \in 0..(Len(pts) - 1), d \in 0..(Len(pts) - 1) :
        qualifiedRun(pts, secs, c, d) => (a <= c /\ d <= b)

inactivityReset(st) ==
  st.inactivityStartIdx = null /\ st.inactivityAccumSec = 0 /\ ~st.inactivityQualified

(* C10: an iteration over a pair with negative elapsed time closes the      *)
(* current segment just before the second point and resets the inactivity   *)
(* tracking; over a pair with missing or zero elapsed time it only resets   *)
(* the inactivity tracking and cuts nothing.                                *)
C10_NegativeCutsMissingResets ==
  [][(split.pc = "loop" /\ split'.pc = "loop") =>
       LET pts == split.points
           st == split.st
           i == st.i
       IN /\ (hasTime(pts, i) /\ deltaSec(pts, i) < 0) =>
                /\ split'.st.segments = Append(st.segments, slice(pts, st.segmentStartIdx, i))
                /\ split'.st.segmentStartIdx = i
                /\ inactivityReset(split'.st)
          /\ (~hasTime(pts, i) \/ deltaSec(pts, i) = 0) =>
                /\ split'.st.segments = st.segments
                /\ split'.st.segmentStartIdx = st.segmentStartIdx
                /\ inactivityReset(split'.st)]_vars

(* C10 witness: a negative pair met inside a qualified low-speed run has    *)
(* cut the segment, and a later pair without elapsed time has cut nothing.  *)
C10_Witness ==
  /\ split.pc = "loop"
  /\ split.st.i = 4
  /\ lowSpeedPair(split.points, 1)
  /\ split.points[2].time - split.points[1].time >= inactivitySeconds(split.gapMinutes)
  /\ hasTime(split.points, 2) /\ deltaSec(split.points, 2) < 0
  /\ ~hasTime(split.points, 3)
  /\ split.st.segments = <<slice(split.points, 0, 2)>>
  /\ split.st.segmentStartIdx = 2

(* the number of points of all the segments together                        *)
RECURSIVE pointCount(_)
pointCount(segs) == IF segs = <<>> THEN 0 ELSE Len(Head(segs)) + pointCount(Tail(segs))

(* The track ends inside a qualified inactivity break that began at point   *)
(* a: a..last is a maximal low-speed run that accumulated the gap.          *)
trailingBreak(pts, secs, a) ==
  /\ qualifiedRun(pts, secs, a, Len(pts) - 1)
  /\ (a = 0 \/ ~lowSpeedPair(pts, a))

(* C11: when the track ends inside a qualified break that began at point a, *)
(* the last returned segment ends at point a and no segment holds a later   *)
(* point, also when the break runs from the first point to the last; when   *)
(* the track does not end inside a qualified break, the last returned       *)
(* segment is the tail of the track up to its last point.                   *)
C11_TrailingBreakDropped ==
  splitDone =>
    LET pts == split.points
        secs == inactivitySeconds(split.gapMinutes)
        last == split.result[Len(split.result)]
    IN /\ \A a \in 0..(Len(pts) - 2) :
             trailingBreak(pts, secs, a) =>
               /\ \E x \in 0..a : last = slice(pts, x, a + 1)
               /\ pointCount(split.result) <= a + 1
       /\ (\A a \in 0..(Len(pts) - 2) : ~trailingBreak(pts, secs, a)) =>
             last = sliceFrom(pts, Len(pts) - Len(last))

-----------------------------------------------------------------------------
(* Sessions, render parameters and segments.                               *)
(*                                                                         *)
(* gamma is counted in tenths and threshold in hundredths.  An overlay URL  *)
(* is the data URL of the image buildOverlay renders; it is a function of   *)
(* the three arguments of the call and is represented by them.  The        *)
(* promise of an async function settles at some later step: its callers    *)
(* are written against that contract and the model lets any other          *)
(* operation run before the continuation does.                              *)

PARAM_KEYS == {"gamma", "sigma", "threshold", "res"}

defaultParams == [gamma |-> 7, sigma |-> 7, threshold |-> 5, res |-> 1000]

(* boundsOfPoints padding, 0.00045 degrees of arc in metres                 *)
BOUNDS_PAD == 50

PLACE_SEARCHING == "Buscando lugar..."
PLACE_UNKNOWN == "Ubicacion desconocida"

(* reverseGeocode resolving with null: no name in the answer                *)
noName == ""

RECURSIVE sumOf(_, _)
sumOf(pts, field) ==
  IF pts = <<>> THEN 0 ELSE Head(pts)[field] + sumOf(Tail(pts), field)

(* the mean of the coordinates, kept to a tenth of the unit of lat and lon; *)
(* NaN for no points (0 / 0)                                                *)
centerOfPoints(pts) ==
  IF Len(pts) = 0 THEN [lat |-> NaN, lon |-> NaN]
  ELSE [lat |-> (sumOf(pts, "lat") * 10) \div Len(pts),
        lon |-> (sumOf(pts, "lon") * 10) \div Len(pts)]

(* v.toFixed(5) of a coordinate kept in tenths: rounded to the unit of lat  *)
(* and lon (a metre of arc, about 0.00001 degree), halves away from zero    *)
toFixed5(v) == IF v >= 0 THEN (v + 5) \div 10 ELSE 0 - ((5 - v) \div 10)

keyForLatLon(lat, lon) == <<toFixed5(lat), toFixed5(lon)>>

areParamsEqual(a, b) == \A key \in PARAM_KEYS : a[key] = b[key]

(* { ...s.params, ...patch }                                                *)
mergeParams(params, patch) ==
  [key \in DOMAIN params |-> IF key \in DOMAIN patch THEN patch[key] ELSE params[key]]

minOf(S) == CHOOSE x \in S : \A y \in S : x <= y
maxOf(S) == CHOOSE x \in S : \A y \in S : x >= y

(* of no points: the initial Infinity and -Infinity, which no pad changes   *)
boundsOfPoints(pts, pad) ==
  LET lats == {pts[k].lat : k \in 1..Len(pts)}
      lons == {pts[k].lon : k \in 1..Len(pts)}
  IN IF Len(pts) = 0
     THEN <<<<Infinity, Infinity>>, <<0 - Infinity, 0 - Infinity>>>>
     ELSE <<<<minOf(lats) - pad, minOf(lons) - pad>>,
            <<maxOf(lats) + pad, maxOf(lons) + pad>>>>

(* overlayUrl: null, or <<u>> for the URL of the image rendered from u       *)
noUrl == <<>>

buildOverlay(pts, bounds, params) ==
  <<[points |-> pts, bounds |-> bounds, params |-> params]>>

buildSegments(pts, params, gapMinutes) ==
  LET groups == splitTrack(pts, gapMinutes)
  IN [k \in 1..Len(groups) |->
        LET segBounds == boundsOfPoints(groups[k], BOUNDS_PAD)
        IN [points |-> groups[k],
            bounds |-> segBounds,
            overlayUrl |-> buildOverlay(groups[k], segBounds, params),
            params |-> params]]

(* source.find((s) => s.id === id): position of the first match, 0 if none  *)
findSession(source, id) ==
  IF \E k \in 1..Len(source) : source[k].id = id
  THEN minOf({k \in 1..Len(source) : source[k].id = id})
  ELSE 0

(* prev.map((s) => (s.id equals id ? f(s) : s))                                *)
mapSession(list, id, f(_)) ==
  [k \in 1..Len(list) |-> IF list[k].id = id THEN f(list[k]) ELSE list[k]]

(* obj[key] = value on a JavaScript object used as a map                    *)
put(obj, key, value) ==
  [x \in (DOMAIN obj) \cup {key} |-> IF x = key THEN value ELSE obj[x]]

emptyEntry == [segments |-> <<>>, splitSeq |-> 0]

(* rebuildSeqRef.current[id] || { segments: {}, splitSeq: 0 }               *)
entryOf(ref, id) == IF id \in DOMAIN ref THEN ref[id] ELSE emptyEntry

(* entry.segments[segIdx] || 0                                              *)
segSeqOf(entry, segIdx) ==
  IF segIdx \in DOMAIN entry.segments THEN entry.segments[segIdx] ELSE 0

-----------------------------------------------------------------------------
(* Bounds and inputs of the rebuild coordination model.                     *)

MaxRebuilds == 3   \* overlay rebuilds scheduleOverlayRebuild starts in a run
MaxPendingBuilds == 2   \* of which in flight at a time
MaxSplits == 2     \* updateSegmentGap / mergeSegments calls that reach their await in a run

(* pairs: fast, idle 400 s, fast.  Two segments for a gap of 1 to 6        *)
(* minutes, one segment for a larger gap.                                   *)
TrackA ==
  << [lat |-> 0, lon |-> 0, time |-> 0],
     [lat |-> 1000, lon |-> 0, time |-> 60],
     [lat |-> 1000, lon |-> 0, time |-> 460],
     [lat |-> 2000, lon |-> 0, time |-> 520] >>

(* a track whose second timestamp is earlier than its first                 *)
TrackB ==
  << [lat |-> 0, lon |-> 0, time |-> 60],
     [lat |-> 1000, lon |-> 0, time |-> 0] >>

(* a file: its name, its parsed points, Date.now() when its session is made *)
FileA == [name |-> "a.gpx", points |-> TrackA, now |-> 1]
FileEmpty == [name |-> "e.gpx", points |-> <<>>, now |-> 1]
FileTxt == [name |-> "notes.txt", points |-> TrackB, now |-> 1]

GpxNames == {"a.gpx", "b.gpx", "c.gpx", "d.gpx", "e.gpx"}

Batches == {<<FileTxt, FileEmpty, FileA>>}

Patches == {[sigma |-> 9], [sigma |-> 7]}
IndexInputs == {0, 9}
GapInputs == {10, NaN}

-----------------------------------------------------------------------------
(* The operations of App.                                                   *)

(* useEffect(() => { sessionsRef.current = sessions; }, [sessions]): the    *)
(* effect of the render that follows a state update.  Within an operation   *)
(* sessionsRef still holds the state before it.  An update made in an event *)
(* handler is rendered when the handler returns, together with the updates  *)
(* that wait for a render, and the effect closes the operation.             *)
syncSessionsRef == sessionsRef' = sessions'

(* The same effect after an update made in a promise continuation.  React   *)
(* renders it at once, or schedules the render as a task of its own, and    *)
(* then a handler that is already queued runs before the effect.            *)
(* effectsDeferred tells which of the two schedules the run follows.        *)
deferSessionsRef ==
  IF effectsDeferred THEN UNCHANGED sessionsRef ELSE sessionsRef' = sessions'

(* the scheduled render commits and the effect runs                         *)
sessionsRefEffect ==
  /\ effectsDeferred
  /\ sessionsRef # sessions
  /\ sessionsRef' = sessions
  /\ UNCHANGED <<sessions, rebuildSeqRef, builds, splits, files, issued, split,
                 geoCacheRef, lookups, call, effectsDeferred, geocodeCalls, splitRequests>>

(* resolvePlaceName up to its await, called on the session list that the   *)
(* updater of handleFiles has produced: the place comes from the cache, or  *)
(* reverseGeocode is called and has yet to settle                           *)
resolvePlaceName(id, center, created) ==
  LET key == keyForLatLon(center.lat, center.lon)
      withCached(s) == [s EXCEPT !.place = geoCacheRef[key]]
  IN IF key \in DOMAIN geoCacheRef
     THEN /\ sessions' = mapSession(created, id, withCached)
          /\ UNCHANGED <<lookups, geocodeCalls>>
     ELSE /\ sessions' = created
          /\ lookups' = Append(lookups, [id |-> id, key |-> key])
          /\ geocodeCalls' = Append(geocodeCalls, key)

(* skipsFile without the check of the parsed points                         *)
skipsFile_extensionOnly(file) == file.name \notin GpxNames

(* the two continue conditions of the loop of handleFiles                   *)
skipsFile(file) == file.name \notin GpxNames \/ Len(file.points) = 0

(* One iteration of the loop of handleFiles.                                *)
handleFiles ==
  /\ Len(files) > 0
  /\ files' = Tail(files)
  /\ LET file == Head(files)
         params == defaultParams
         segments == buildSegments(file.points, params, DEFAULT_SEGMENT_GAP_MINUTES)
         center == centerOfPoints(file.points)
         overallBounds == boundsOfPoints(file.points, BOUNDS_PAD)
         id == [name |-> file.name, now |-> file.now]
     IN IF skipsFile(file)
        THEN UNCHANGED <<sessions, rebuildSeqRef, lookups, geocodeCalls>>
        ELSE /\ rebuildSeqRef' = put(rebuildSeqRef, id, emptyEntry)
             /\ resolvePlaceName(id, center,
                  << [id |-> id,
                      fileName |-> file.name,
                      center |-> center,
                      bounds |-> IF Len(segments) > 0 THEN segments[1].bounds ELSE overallBounds,
                      params |-> params,
                      points |-> file.points,
                      overlayUrl |-> IF Len(segments) > 0 THEN segments[1].overlayUrl ELSE noUrl,
                      place |-> PLACE_SEARCHING,
                      segments |-> segments,
                      activeSegmentIndex |-> 0,
                      segmentGapMinutes |-> DEFAULT_SEGMENT_GAP_MINUTES] >> \o sessions)
  /\ deferSessionsRef
  /\ UNCHANGED <<builds, splits, split, issued, geoCacheRef, call,
                 effectsDeferred, splitRequests>>

(* scheduleOverlayRebuild up to the call of buildOverlay: the new value of  *)
(* the counters and the started build.  forced is null when the third       *)
(* argument is absent.  A build in flight holds what its callback closes    *)
(* over (id, segIdx, segSeq) and the arguments of buildOverlay; no, the     *)
(* ordinal of the build in the run, and the marks invalidated and overtaken *)
(* are history that no operation reads.                                     *)
scheduleOverlayRebuild(id, source, forced) ==
  LET k == findSession(source, id)
      sess == source[k]
      segIdx == IF forced # null THEN forced ELSE sess.activeSegmentIndex
  IN IF k = 0 \/ segIdx \notin 0..(Len(sess.segments) - 1)
     THEN UNCHANGED <<rebuildSeqRef, builds, issued>>
     ELSE LET segment == sess.segments[segIdx + 1]
              prevEntry == entryOf(rebuildSeqRef, id)
              segSeq == segSeqOf(prevEntry, segIdx) + 1
          IN /\ issued.rebuilds < MaxRebuilds
             /\ Len(builds) < MaxPendingBuilds
             /\ issued' = [issued EXCEPT !.rebuilds = @ + 1]
             /\ rebuildSeqRef' =
                  put(rebuildSeqRef, id,
                      [prevEntry EXCEPT !.segments = put(@, segIdx, segSeq)])
             /\ builds' = Append(builds,
                  [id |-> id, segIdx |-> segIdx, segSeq |-> segSeq,
                   points |-> segment.points, bounds |-> segment.bounds,
                   params |-> sess.params,
                   no |-> issued.rebuilds + 1,
                   invalidated |-> FALSE, overtaken |-> FALSE])

updateParams(id, patch) ==
  /\ LET withPatch(s) == [s EXCEPT !.params = mergeParams(@, patch)]
     IN sessions' = mapSession(sessions, id, withPatch)
  /\ scheduleOverlayRebuild(id, sessions', null)
  /\ syncSessionsRef
  /\ UNCHANGED <<splits, files, split, geoCacheRef, lookups, call,
                 effectsDeferred, geocodeCalls, splitRequests>>

(* the guard of the completion callback of scheduleOverlayRebuild           *)
isCurrentBuild(b) ==
  /\ b.id \in DOMAIN rebuildSeqRef
  /\ b.segIdx \in DOMAIN rebuildSeqRef[b.id].segments
  /\ rebuildSeqRef[b.id].segments[b.segIdx] = b.segSeq

(* the updater of the completion callback, applied to one session           *)
applyOverlay(s, segIdx, url) ==
  LET updatedSegments ==
        [k \in 1..Len(s.segments) |->
           IF k - 1 = segIdx
           THEN [s.segments[k] EXCEPT !.overlayUrl = url, !.params = s.params]
           ELSE s.segments[k]]
  IN IF segIdx = s.activeSegmentIndex /\ segIdx < Len(s.segments)
     THEN [s EXCEPT !.segments = updatedSegments,
                    !.overlayUrl = url,
                    !.bounds = updatedSegments[segIdx + 1].bounds]
     ELSE [s EXCEPT !.segments = updatedSegments]

(* sequence s without its element n                                         *)
removeAt(s, n) == SubSeq(s, 1, n - 1) \o SubSeq(s, n + 1, Len(s))

(* The promise of buildOverlay started by scheduleOverlayRebuild settles    *)
(* and its callback runs.  When the callback writes, the builds still in    *)
(* flight for the same key with a smaller number are marked overtaken       *)
(* (history only: no operation reads the mark).                             *)
completeRebuild(n) ==
  /\ LET b == builds[n]
         url == buildOverlay(b.points, b.bounds, b.params)
         withOverlay(s) == applyOverlay(s, b.segIdx, url)
         marked == [k \in 1..Len(builds) |->
                      IF /\ builds[k].id = b.id
                         /\ builds[k].segIdx = b.segIdx
                         /\ builds[k].segSeq < b.segSeq
                      THEN [builds[k] EXCEPT !.overtaken = TRUE]
                      ELSE builds[k]]
     IN IF ~isCurrentBuild(b)
        THEN /\ builds' = removeAt(builds, n)
             /\ UNCHANGED sessions
        ELSE /\ builds' = removeAt(marked, n)
             /\ sessions' = mapSession(sessions, b.id, withOverlay)
  /\ deferSessionsRef
  /\ UNCHANGED <<rebuildSeqRef, splits, files, split, issued, geoCacheRef, lookups, call,
                 effectsDeferred, geocodeCalls, splitRequests>>

setActiveSegment(id, index) ==
  /\ findSession(sessionsRef, id) # 0
  /\ LET session == sessionsRef[findSession(sessionsRef, id)]
         segCount == Len(session.segments)
         nextIndex == clamp(index, 0, Max(0, segCount - 1))
         target == session.segments[nextIndex + 1]
         select(s) == [s EXCEPT !.activeSegmentIndex = nextIndex,
                                !.bounds = target.bounds,
                                !.overlayUrl = target.overlayUrl]
     IN /\ segCount # 0
        /\ IF \/ session.activeSegmentIndex # nextIndex
              \/ session.bounds # target.bounds
              \/ session.overlayUrl # target.overlayUrl
           THEN /\ sessions' = mapSession(sessions, id, select)
                /\ syncSessionsRef
           ELSE UNCHANGED <<sessions, sessionsRef>>
        /\ IF ~areParamsEqual(target.params, session.params) \/ target.overlayUrl = noUrl
           THEN scheduleOverlayRebuild(id, sessionsRef, nextIndex)
           ELSE UNCHANGED <<rebuildSeqRef, builds, issued>>
  /\ UNCHANGED <<splits, files, split, geoCacheRef, lookups, call,
                 effectsDeferred, geocodeCalls, splitRequests>>

(* rebuildSeqRef.current[id] = { segments: {}, splitSeq }, and the builds   *)
(* of the session that are pending at that moment are marked invalidated    *)
(* (history only: no operation reads the mark)                              *)
bumpSplitSeq(id) ==
  /\ rebuildSeqRef' =
       put(rebuildSeqRef, id,
           [segments |-> <<>>, splitSeq |-> entryOf(rebuildSeqRef, id).splitSeq + 1])
  /\ builds' = [n \in 1..Len(builds) |->
                  IF builds[n].id = id
                  THEN [builds[n] EXCEPT !.invalidated = TRUE]
                  ELSE builds[n]]

(* a segmentation call up to its await; the calls of the session that are   *)
(* still awaiting are marked superseded (history only)                      *)
startSplit(id, kind, session, gapMinutes) ==
  /\ issued.splits < MaxSplits
  /\ issued' = [issued EXCEPT !.splits = @ + 1]
  /\ splits' =
       Append([n \in 1..Len(splits) |->
                 IF splits[n].id = id
                 THEN [splits[n] EXCEPT !.superseded = TRUE]
                 ELSE splits[n]],
              [id |-> id, kind |-> kind,
               splitSeq |-> entryOf(rebuildSeqRef, id).splitSeq + 1,
               gapMinutes |-> gapMinutes,
               points |-> session.points,
               params |-> session.params,
               activeSegmentIndex |-> session.activeSegmentIndex,
               superseded |-> FALSE])

(* Math.round of a positive number given in tenths                          *)
roundTenths(x) == (x + 5) \div 10

(* safeValue without the clamp                                              *)
safeGap_noClamp(gapMinutes, current) ==
  LET numericGap == IF isFinite(gapMinutes) THEN gapMinutes ELSE current * 10
  IN roundTenths(numericGap)

(* safeValue of updateSegmentGap.  The argument is in tenths of a minute,   *)
(* NaN for what Number() cannot read; current is segmentGapMinutes.         *)
safeGap(gapMinutes, current) ==
  LET numericGap == IF isFinite(gapMinutes) THEN gapMinutes ELSE current * 10
  IN roundTenths(clamp(numericGap, 10, 600))

(* updateSegmentGap up to its await.  When safeValue is the current gap it  *)
(* returns at once; the request is recorded either way.                     *)
updateSegmentGap(id, gapMinutes) ==
  /\ findSession(sessionsRef, id) # 0
  /\ LET session == sessionsRef[findSession(sessionsRef, id)]
         safeValue == safeGap(gapMinutes, session.segmentGapMinutes)
     IN /\ IF safeValue = session.segmentGapMinutes
           THEN UNCHANGED <<rebuildSeqRef, builds, splits, issued>>
           ELSE /\ bumpSplitSeq(id)
                /\ startSplit(id, "gap", session, safeValue)
        /\ splitRequests' = put(splitRequests, id, [kind |-> "gap", gapMinutes |-> safeValue])
  /\ UNCHANGED <<sessions, sessionsRef, files, split, geoCacheRef, lookups, call,
                 effectsDeferred, geocodeCalls>>

mergeSegments(id) ==
  /\ findSession(sessionsRef, id) # 0
  /\ LET session == sessionsRef[findSession(sessionsRef, id)]
     IN /\ bumpSplitSeq(id)
        /\ startSplit(id, "merge", session, Infinity)
  /\ splitRequests' = put(splitRequests, id, [kind |-> "merge", gapMinutes |-> Infinity])
  /\ UNCHANGED <<sessions, sessionsRef, files, split, geoCacheRef, lookups, call,
                 effectsDeferred, geocodeCalls>>

(* the guard with >= in place of the equality                               *)
isCurrentSplit_atLeast(sp) == entryOf(rebuildSeqRef, sp.id).splitSeq >= sp.splitSeq

(* (rebuildSeqRef.current[id]?.splitSeq ?? 0)  equals splitSeq                *)
isCurrentSplit(sp) == entryOf(rebuildSeqRef, sp.id).splitSeq = sp.splitSeq

(* the updater that commits the segments of a segmentation call             *)
commitSegments(s, sp, newSegments) ==
  LET nextIndex == IF sp.kind = "merge" THEN 0
                   ELSE Min(sp.activeSegmentIndex, Max(0, Len(newSegments) - 1))
      hasActive == nextIndex < Len(newSegments)
  IN [s EXCEPT
        !.segmentGapMinutes = IF sp.kind = "gap" THEN sp.gapMinutes ELSE @,
        !.segments = newSegments,
        !.activeSegmentIndex = nextIndex,
        !.bounds = IF hasActive THEN newSegments[nextIndex + 1].bounds ELSE @,
        !.overlayUrl = IF hasActive THEN newSegments[nextIndex + 1].overlayUrl ELSE noUrl]

(* buildSegments settles and updateSegmentGap / mergeSegments resumes       *)
completeSplit(n) ==
  /\ LET sp == splits[n]
         newSegments == buildSegments(sp.points, sp.params, sp.gapMinutes)
         commit(s) == commitSegments(s, sp, newSegments)
     IN IF ~isCurrentSplit(sp)
        THEN /\ splits' = removeAt(splits, n)
             /\ UNCHANGED sessions
        ELSE /\ splits' = removeAt(splits, n)
             /\ sessions' = mapSession(sessions, sp.id, commit)
  /\ deferSessionsRef
  /\ UNCHANGED <<rebuildSeqRef, builds, files, split, issued, geoCacheRef, lookups, call,
                 effectsDeferred, geocodeCalls, splitRequests>>

sessionIds == {sessions[k].id : k \in 1..Len(sessions)}

Init ==
  /\ sessions = <<>>
  /\ sessionsRef = <<>>
  /\ rebuildSeqRef = <<>>
  /\ builds = <<>>
  /\ splits = <<>>
  /\ files \in Batches
  /\ issued = [rebuilds |-> 0, splits |-> 0]
  /\ split = splitIdle
  /\ geoCacheRef = <<>>
  /\ lookups = <<>>
  /\ call = callIdle
  /\ effectsDeferred = FALSE
  /\ geocodeCalls = <<>>
  /\ splitRequests = <<>>

Next ==
  \/ handleFiles
  \/ \E id \in sessionIds, patch \in Patches : updateParams(id, patch)
  \/ \E id \in sessionIds, index \in IndexInputs : setActiveSegment(id, index)
  \/ \E id \in sessionIds, gapMinutes \in GapInputs : updateSegmentGap(id, gapMinutes)
  \/ \E id \in sessionIds : mergeSegments(id)
  \/ \E n \in 1..Len(builds) : completeRebuild(n)
  \/ \E n \in 1..Len(splits) : completeSplit(n)

Spec == Init /\ [][Next]_vars

-----------------------------------------------------------------------------
(* Properties of the rebuild coordination.                                  *)

(* build n of the current state is settled by the step                      *)
rebuildSettled(n) == \A k \in 1..Len(builds') : builds'[k].no # builds[n].no

(* segmentation call n of the current state resumes in the step             *)
splitSettled(n) ==
  \A k \in 1..Len(splits') :
     ~(splits'[k].id = splits[n].id /\ splits'[k].splitSeq = splits[n].splitSeq)

(* C1: of two rebuilds of one (session, segment index) key numbered         *)
(* S1 < S2, the S1 result is never written after the S2 result was written, *)
(* in whatever order they complete; a completing build whose number is no   *)
(* longer the stored counter leaves sessions and counters unchanged.        *)
C1_OlderNeverOverwritesNewer ==
  [][\A n \in 1..Len(builds) :
        rebuildSettled(n) =>
          /\ builds[n].overtaken => sessions' = sessions
          /\ ~isCurrentBuild(builds[n]) =>
                (sessions' = sessions /\ rebuildSeqRef' = rebuildSeqRef)]_vars

(* C2: a rebuild that is pending when updateSegmentGap or mergeSegments is  *)
(* issued for its session never writes its result into the session.        *)
C2_SplitInvalidatesPendingRebuilds ==
  [][\A n \in 1..Len(builds) :
        (rebuildSettled(n) /\ builds[n].invalidated) => sessions' = sessions]_vars

(* C3: the counter stored for a (session id, segment index) key never       *)
(* decreases.                                                               *)
C3_SegSeqNeverDecreases ==
  [][\A id \in DOMAIN rebuildSeqRef :
        \A segIdx \in DOMAIN rebuildSeqRef[id].segments :
           segSeqOf(entryOf(rebuildSeqRef', id), segIdx)
              >= rebuildSeqRef[id].segments[segIdx]]_vars

(* C4: a segmentation call that was still awaiting its segments when a      *)
(* later one was issued for the same session never commits: when it         *)
(* resumes, the sessions are left as they are.                              *)
C4_OnlyLastSplitCommits ==
  [][\A n \in 1..Len(splits) :
        (splitSettled(n) /\ splits[n].superseded) => sessions' = sessions]_vars

(* C4 witness: two calls were issued, the second (a merge) is still         *)
(* awaiting, and the first has resumed without committing: the session      *)
(* still has the gap and the two segments it was created with.              *)
C4_Witness ==
  /\ issued.splits = 2
  /\ Len(splits) = 1
  /\ splits[1].kind = "merge" /\ splits[1].splitSeq = 2 /\ ~splits[1].superseded
  /\ Len(sessions) = 1
  /\ sessions[1].segmentGapMinutes = DEFAULT_SEGMENT_GAP_MINUTES
  /\ Len(sessions[1].segments) = 2

(* C5: the params recorded on a segment with an overlay are the params the  *)
(* overlay was built with.                                                  *)
C5_SegmentParamsAreBuildParams ==
  \A k \in 1..Len(sessions) :
     \A j \in 1..Len(sessions[k].segments) :
        LET seg == sessions[k].segments[j]
        IN seg.overlayUrl # noUrl => seg.params = seg.overlayUrl[1].params

-----------------------------------------------------------------------------
(* Place names: the batch of files is ingested while the answers of the     *)
(* reverse-geocoding service arrive, each at any later moment.              *)

(* mean latitude 1000.3: the key of TrackA, another centre                  *)
TrackC ==
  << [lat |-> 999, lon |-> 0, time |-> 0],
     [lat |-> 1000, lon |-> 0, time |-> 60],
     [lat |-> 1002, lon |-> 0, time |-> 120] >>

TrackD == << [lat |-> 5000, lon |-> 0, time |-> 0] >>

FileC == [name |-> "c.gpx", points |-> TrackC, now |-> 2]
FileD == [name |-> "d.gpx", points |-> TrackD, now |-> 3]

(* a second file named a.gpx, from another folder, whose session is made    *)
(* while Date.now() still returns the value it returned for the first       *)
FileA2 == [name |-> "a.gpx", points |-> TrackD, now |-> 1]

GeoBatches == {<<FileA, FileC, FileD>>, <<FileD, FileA, FileC>>, <<FileA, FileA2, FileD>>}

(* what reverseGeocode resolves with                                        *)
GeocodeNames == {"Cancha", "Parque", noName}

(* s with its place replaced                                                *)
withPlace(s, place) == [s EXCEPT !.place = place]

(* reverseGeocode resolves and resolvePlaceName resumes after its await     *)
geocodeResolved(n, name) ==
  /\ LET l == lookups[n]
         place == IF name # noName THEN name ELSE PLACE_UNKNOWN
         placed(s) == withPlace(s, place)
     IN /\ geoCacheRef' = put(geoCacheRef, l.key, place)
        /\ sessions' = mapSession(sessions, l.id, placed)
  /\ lookups' = removeAt(lookups, n)
  /\ deferSessionsRef
  /\ UNCHANGED <<rebuildSeqRef, builds, splits, files, issued, split, call,
                 effectsDeferred, geocodeCalls, splitRequests>>

(* geocodeFailed storing the fallback label in the cache                    *)
geocodeFailed_cachesFallback(n) ==
  /\ LET l == lookups[n]
         placed(s) == withPlace(s, PLACE_UNKNOWN)
     IN /\ sessions' = mapSession(sessions, l.id, placed)
        /\ geoCacheRef' = put(geoCacheRef, l.key, PLACE_UNKNOWN)
  /\ lookups' = removeAt(lookups, n)
  /\ deferSessionsRef
  /\ UNCHANGED <<rebuildSeqRef, builds, splits, files, issued, split, call,
                 effectsDeferred, geocodeCalls, splitRequests>>

(* reverseGeocode rejects (network error, status not ok, unparseable body)  *)
(* and the catch clause of resolvePlaceName runs                            *)
geocodeFailed(n) ==
  /\ LET l == lookups[n]
         placed(s) == withPlace(s, PLACE_UNKNOWN)
     IN sessions' = mapSession(sessions, l.id, placed)
  /\ lookups' = removeAt(lookups, n)
  /\ deferSessionsRef
  /\ UNCHANGED <<rebuildSeqRef, builds, splits, files, issued, split, geoCacheRef, call,
                 effectsDeferred, geocodeCalls, splitRequests>>

(* a pending call of reverseGeocode settles                                 *)
geocodeSettles ==
  \E n \in 1..Len(lookups) :
     \/ \E name \in GeocodeNames : geocodeResolved(n, name)
     \/ geocodeFailed(n)

InitGeo ==
  /\ sessions = <<>>
  /\ sessionsRef = <<>>
  /\ rebuildSeqRef = <<>>
  /\ builds = <<>>
  /\ splits = <<>>
  /\ files \in GeoBatches
  /\ issued = [rebuilds |-> 0, splits |-> 0]
  /\ split = splitIdle
  /\ geoCacheRef = <<>>
  /\ lookups = <<>>
  /\ call = callIdle
  /\ effectsDeferred = FALSE
  /\ geocodeCalls = <<>>
  /\ splitRequests = <<>>

NextGeo ==
  \/ handleFiles
  \/ \E n \in 1..Len(lookups), name \in GeocodeNames : geocodeResolved(n, name)
  \/ \E n \in 1..Len(lookups) : geocodeFailed(n)

(* the promise of fetch settles: a pending call is answered or fails        *)
SpecGeo == InitGeo /\ [][NextGeo]_vars /\ WF_vars(geocodeSettles)

-----------------------------------------------------------------------------
(* Properties of the place names.                                           *)

GeoIds == {[name |-> b[k].name, now |-> b[k].now] : b \in GeoBatches, k \in 1..3}

placeOf(id) == sessions[findSession(sessions, id)].place

searching(id) == findSession(sessions, id) # 0 /\ placeOf(id) = PLACE_SEARCHING

(* C14: when the reverse-geocoding call of a session fails, the place of    *)
(* that session becomes the fallback label and nothing else of any session  *)
(* changes, the cache is left as it is and no new call is made for the      *)
(* session; and the place of every session eventually stops being the       *)
(* placeholder.                                                             *)
C14_GeocodeFailureFallsBack ==
  /\ [][\A n \in 1..Len(lookups) :
          geocodeFailed(n) =>
            /\ sessions' = [k \in 1..Len(sessions) |->
                              IF sessions[k].id = lookups[n].id
                              THEN [sessions[k] EXCEPT !.place = PLACE_UNKNOWN]
                              ELSE sessions[k]]
            /\ geoCacheRef' = geoCacheRef
            /\ lookups' = removeAt(lookups, n)
            /\ geocodeCalls' = geocodeCalls]_vars
  /\ \A id \in GeoIds :
        searching(id) ~> (findSession(sessions, id) # 0 /\ placeOf(id) # PLACE_SEARCHING)

(* C14 witness: a session shows the fallback label, no call is pending for  *)
(* it and the cache has nothing for its key: its call has failed.           *)
C14_Witness ==
  \E k \in 1..Len(sessions) :
     /\ sessions[k].place = PLACE_UNKNOWN
     /\ keyForLatLon(sessions[k].center.lat, sessions[k].center.lon) \notin DOMAIN geoCacheRef
     /\ \A n \in 1..Len(lookups) : lookups[n].id # sessions[k].id

(* C15: a session created when the cache holds a place for the key of its   *)
(* centre gets that place and no call of reverseGeocode is made; and an     *)
(* entry of the cache is never changed or removed.                          *)
C15_CacheHitAndCacheStable ==
  [][/\ (Len(sessions') = Len(sessions) + 1) =>
          LET key == keyForLatLon(sessions'[1].center.lat, sessions'[1].center.lon)
          IN key \in DOMAIN geoCacheRef =>
               (sessions'[1].place = geoCacheRef[key] /\ lookups' = lookups)
     /\ \A key \in DOMAIN geoCacheRef :
          key \in DOMAIN geoCacheRef' /\ geoCacheRef'[key] = geoCacheRef[key]]_vars

-----------------------------------------------------------------------------
(* Properties of file ingestion and of the calls of buildOverlay.           *)

(* C12: a file whose text parses to zero track points adds no session and   *)
(* no rebuild counter, and handleFiles goes on with the rest of the batch.  *)
C12_EmptyFileCreatesNoSession ==
  [][(Len(files) > 0 /\ files' # files /\ Len(Head(files).points) = 0) =>
        /\ sessions' = sessions
        /\ rebuildSeqRef' = rebuildSeqRef
        /\ files' = Tail(files)]_vars

(* C12 witness: the batch held a .gpx file without points ahead of a.gpx;   *)
(* it is exhausted and a.gpx alone has a session and a counter.             *)
C12_Witness ==
  /\ \E b \in Batches : \E k \in 1..(Len(b) - 1) :
        b[k].name \in GpxNames /\ b[k].points = <<>> /\ b[k + 1].name = "a.gpx"
  /\ files = <<>>
  /\ Len(sessions) = 1
  /\ sessions[1].fileName = "a.gpx"
  /\ DOMAIN rebuildSeqRef = {sessions[1].id}

(* The point lists of the calls of buildOverlay the state shows: those of   *)
(* the rebuilds in flight, those buildSegments makes for the segmentation   *)
(* calls in flight, and those that rendered the overlays of the sessions.   *)
overlayInputs ==
  {builds[n].points : n \in 1..Len(builds)}
  \cup UNION {LET groups == splitTrack(splits[n].points, splits[n].gapMinutes)
              IN {groups[k] : k \in 1..Len(groups)} : n \in 1..Len(splits)}
  \cup UNION {{sessions[k].segments[j].overlayUrl[1].points :
                 j \in {i \in 1..Len(sessions[k].segments) :
                          sessions[k].segments[i].overlayUrl # noUrl}} :
              k \in 1..Len(sessions)}
  \cup {sessions[k].overlayUrl[1].points :
          k \in {i \in 1..Len(sessions) : sessions[i].overlayUrl # noUrl}}

(* C13: buildOverlay is never called with an empty list of points.          *)
C13_OverlayNeverOnEmptyPoints == \A pts \in overlayInputs : Len(pts) > 0

(* C13 witness: a rebuild and a segmentation are in flight for a session    *)
(* whose overlays were rendered at ingestion.                               *)
C13_Witness ==
  /\ Len(builds) > 0
  /\ Len(splits) > 0
  /\ \E k \in 1..Len(sessions) : sessions[k].overlayUrl # noUrl
  /\ Cardinality(overlayInputs) >= 3

-----------------------------------------------------------------------------
(* The pure functions of ingestion and rendering, one call at a time.       *)

(* --- parseGPX ---                                                         *)
(* A trkpt element is [lat, lon, time]: lat and lon are what getAttribute   *)
(* returns, <<>> for null (no such attribute) and <<text>> for the text of  *)
(* the attribute; time is the time of the point as in a track point.        *)

MaxElems == 2

AttrValues == {<<>>, <<"">>, <<"abc">>, <<"10">>, <<"20">>, <<"Infinity">>}
LonAttrValues == {<<>>, <<"abc">>, <<"10">>}

Elements == [lat : AttrValues, lon : LonAttrValues, time : {0}]
Documents == UNION {[1..n -> Elements] : n \in 0..MaxElems}

(* parseFloat on the texts of AttrValues and on the default "0"             *)
parseFloat(text) ==
  CASE text = "0" -> 0
    [] text = "10" -> 10
    [] text = "20" -> 20
    [] text = "Infinity" -> Infinity
    [] OTHER -> NaN

(* el.getAttribute(name) || "0"                                             *)
attrOrZero(attr) == IF attr = <<>> \/ attr[1] = "" THEN "0" ELSE attr[1]

(* the point the map step makes of an element                               *)
pointOfElement(el) ==
  [lat |-> parseFloat(attrOrZero(el.lat)),
   lon |-> parseFloat(attrOrZero(el.lon)),
   time |-> el.time]

(* .filter((p) => isFinite(p.lat) && isFinite(p.lon))                       *)
finitePoint(p) == isFinite(p.lat) /\ isFinite(p.lon)

RECURSIVE parseGPX(_)
parseGPX(doc) ==
  IF doc = <<>> THEN <<>>
  ELSE LET p == pointOfElement(Head(doc))
       IN IF finitePoint(p) THEN <<p>> \o parseGPX(Tail(doc)) ELSE parseGPX(Tail(doc))

(* --- computeTrackStats ---                                                *)
(* A speed is a fraction <<n, d>> of km/h with d >= 0: <<1, 0>> is Infinity *)
(* and <<0, 0>> is NaN, the two results of a division by zero.              *)

speedZero == <<0, 1>>
speedInfinity == <<1, 0>>
speedNaN == <<0, 0>>

(* segmentKm / dtHours for a distance in metres and a time in seconds:      *)
(* (m / 1000) / (s / 3600) = 18 m / 5 s                                     *)
speedOf(metres, secs) ==
  IF secs = 0 THEN (IF metres = 0 THEN speedNaN ELSE speedInfinity)
  ELSE IF secs > 0 THEN <<18 * metres, 5 * secs>>
  ELSE <<0 - 18 * metres, 0 - 5 * secs>>

(* a > b on speeds                                                          *)
speedGreater(a, b) ==
  IF a = speedNaN \/ b = speedNaN THEN FALSE
  ELSE IF b = speedInfinity THEN FALSE
  ELSE IF a = speedInfinity THEN TRUE
  ELSE a[1] * b[2] > b[1] * a[2]

(* the locals of computeTrackStats before its loop has met a second point   *)
statsInit == [i |-> 1, totalDistanceKm |-> 0, maxSpeedKmh |-> speedZero]

(* statsStep without the test of a positive elapsed time                    *)
statsStep_anyElapsed(pts, st) ==
  LET segmentKm == haversineDistance(pts[st.i], pts[st.i + 1])
      speed == speedOf(segmentKm, deltaSec(pts, st.i))
      sampled == hasTime(pts, st.i)
  IN [st EXCEPT
        !.i = @ + 1,
        !.totalDistanceKm = @ + segmentKm,
        !.maxSpeedKmh = IF sampled /\ speedGreater(speed, @) THEN speed ELSE @]

(* one iteration of the loop that has a previous point: the pair            *)
(* (st.i - 1, st.i) of the source; totalDistanceKm is counted in metres     *)
statsStep(pts, st) ==
  LET segmentKm == haversineDistance(pts[st.i], pts[st.i + 1])
      speed == speedOf(segmentKm, deltaSec(pts, st.i))
      sampled == hasTime(pts, st.i) /\ deltaSec(pts, st.i) > 0
  IN [st EXCEPT
        !.i = @ + 1,
        !.totalDistanceKm = @ + segmentKm,
        !.maxSpeedKmh = IF sampled /\ speedGreater(speed, @) THEN speed ELSE @]

RECURSIVE statsLoop(_, _)
statsLoop(pts, st) == IF st.i < Len(pts) THEN statsLoop(pts, statsStep(pts, st)) ELSE st

(* the distance, the maximum speed and the point count of the statistics    *)
computeTrackStats(pts) ==
  IF Len(pts) = 0
  THEN [totalDistanceKm |-> 0, maxSpeedKmh |-> speedZero, pointCount |-> 0]
  ELSE LET st == statsLoop(pts, statsInit)
       IN [totalDistanceKm |-> st.totalDistanceKm,
           maxSpeedKmh |-> st.maxSpeedKmh,
           pointCount |-> Len(pts)]

(* --- classifyActivity ---                                                 *)
(* Speeds in km/h and distances in km; spans in hundredths of a km and      *)
(* areas in hundredths of a square km.                                      *)

ACTIVITY_HEURISTICS ==
  [futbol |-> [maxDistanceKm |-> 9, maxAvgSpeedKmh |-> 11, maxSpanKm |-> 35,
               compactSpanKm |-> 28, maxAreaKm2 |-> 8],
   bici |-> [minAvgSpeedKmh |-> 18, minMaxSpeedKmh |-> 28],
   running |-> [minDistanceKm |-> 3, maxSpanKm |-> 300,
                minAvgSpeedKmh |-> 7, maxAvgSpeedKmh |-> 16]]

ACTIVITIES == {"futbol", "running", "bici"}

(* 1 when the check holds, else 0                                           *)
points01(check) == IF check THEN 1 ELSE 0

(* a || b on numbers that are not NaN                                       *)
orElse(a, b) == IF a # 0 THEN a ELSE b

(* the scores after the three blocks of checks                              *)
scoresOf(stats) ==
  LET futbol == ACTIVITY_HEURISTICS.futbol
      bici == ACTIVITY_HEURISTICS.bici
      running == ACTIVITY_HEURISTICS.running
      span == orElse(stats.trimmedMaxSpanKm, stats.bboxMaxSpanKm)
      area == orElse(stats.trimmedAreaKm2, stats.bboxAreaKm2)
      inRunningPace == /\ stats.avgSpeedKmh >= running.minAvgSpeedKmh
                       /\ stats.avgSpeedKmh <= running.maxAvgSpeedKmh
      abovePace == ~inRunningPace /\ stats.avgSpeedKmh > running.maxAvgSpeedKmh
  IN [bici |-> 3 * points01(stats.avgSpeedKmh >= bici.minAvgSpeedKmh)
               + 2 * points01(stats.maxSpeedKmh >= bici.minMaxSpeedKmh)
               + points01(stats.totalDistanceKm >= running.minDistanceKm * 4)
               + points01(abovePace),
      futbol |-> points01(span <= futbol.maxSpanKm)
                 + 2 * points01(span <= futbol.compactSpanKm)
                 + 2 * points01(area <= futbol.maxAreaKm2)
                 + 2 * points01(stats.totalDistanceKm <= futbol.maxDistanceKm)
                 + 2 * points01(stats.avgSpeedKmh <= futbol.maxAvgSpeedKmh)
                 + points01(~inRunningPace /\ ~abovePace),
      running |-> points01(stats.totalDistanceKm >= running.minDistanceKm)
                  + points01(span <= running.maxSpanKm)
                  + 2 * points01(inRunningPace)]

(* priority with futbol ahead of bici                                       *)
priority_futbolFirst == [bici |-> 2, futbol |-> 3, running |-> 1]

(* the priority of the comparator                                           *)
priority == [bici |-> 3, futbol |-> 2, running |-> 1]

(* the comparator puts a before b                                           *)
sortsBefore(scores, a, b) ==
  IF scores[b] # scores[a] THEN scores[b] - scores[a] < 0
  ELSE priority[b] - priority[a] < 0

(* ordered[0]: the entry the comparator puts before every other             *)
bestOf(scores) ==
  CHOOSE a \in ACTIVITIES : \A b \in ACTIVITIES \ {a} : sortsBefore(scores, a, b)

classifyActivity(stats) ==
  LET scores == scoresOf(stats)
      bestType == bestOf(scores)
  IN IF scores[bestType] <= 0 THEN "running" ELSE bestType

(* --- buildOverlay, the alpha of one cell ---                              *)
(* v, the value of the cell after normalisation and gamma, and threshold    *)
(* are counted in thousandths.                                              *)

(* Math.round of the fraction n / d, d > 0                                  *)
roundDiv(n, d) == (2 * n + d) \div (2 * d)

(* cellAlpha keeping only the cells strictly below the threshold transparent *)
cellAlpha_strict(v, threshold) ==
  IF v < threshold THEN 0
  ELSE clamp(roundDiv(6375 * (1000 - threshold) + 16575 * (v - threshold),
                      100 * (1000 - threshold)), 0, 255)

(* data[i * 4 + 3] after the loop body: 0 at or below the threshold, else   *)
(* Math.round((0.25 + 0.65 * t) * 255) with t = (v - threshold) / (1 -      *)
(* threshold), stored in a clamped byte                                     *)
cellAlpha(v, threshold) ==
  IF v <= threshold THEN 0
  ELSE clamp(roundDiv(6375 * (1000 - threshold) + 16575 * (v - threshold),
                      100 * (1000 - threshold)), 0, 255)

-----------------------------------------------------------------------------
(* One call of a pure function on arguments drawn from bounded sets.        *)

StatsValues ==
  [avgSpeedKmh : {0, 7, 11, 12, 16, 17, 18},
   maxSpeedKmh : {0, 28},
   totalDistanceKm : {0, 3, 9, 10, 12},
   trimmedMaxSpanKm : {0, 28, 35, 300, 301},
   bboxMaxSpanKm : {28, 301},
   trimmedAreaKm2 : {0, 8, 9},
   bboxAreaKm2 : {8, 9}]

CellValues == 0..1000
ThresholdValues == {0, 5, 50, 200}

ParseCalls == {[pc |-> "start", fn |-> "parseGPX", doc |-> d, result |-> <<>>] : d \in Documents}
StatsCalls ==
  {[pc |-> "start", fn |-> "computeTrackStats", points |-> pts, result |-> <<>>] :
     pts \in Tracks \cup {<<>>}}
ClassifyCalls ==
  {[pc |-> "start", fn |-> "classifyActivity", stats |-> st, result |-> <<>>] :
     st \in StatsValues}
CellCalls ==
  {[pc |-> "start", fn |-> "buildOverlay", v |-> v, threshold |-> t, result |-> <<>>] :
     v \in CellValues, t \in ThresholdValues}

callStarts(fn) == call.pc = "start" /\ call.fn = fn
callDone(fn) == call.pc = "done" /\ call.fn = fn

callParseGPX ==
  /\ callStarts("parseGPX")
  /\ call' = [call EXCEPT !.pc = "done", !.result = parseGPX(call.doc)]

callComputeTrackStats ==
  /\ callStarts("computeTrackStats")
  /\ call' = [call EXCEPT !.pc = "done", !.result = computeTrackStats(call.points)]

callClassifyActivity ==
  /\ callStarts("classifyActivity")
  /\ call' = [call EXCEPT !.pc = "done", !.result = classifyActivity(call.stats)]

callBuildOverlayCell ==
  /\ callStarts("buildOverlay")
  /\ call' = [call EXCEPT !.pc = "done", !.result = cellAlpha(call.v, call.threshold)]

InitFn ==
  /\ sessions = <<>>
  /\ sessionsRef = <<>>
  /\ rebuildSeqRef = <<>>
  /\ builds = <<>>
  /\ splits = <<>>
  /\ files = <<>>
  /\ issued = [rebuilds |-> 0, splits |-> 0]
  /\ split = splitIdle
  /\ geoCacheRef = <<>>
  /\ lookups = <<>>
  /\ call \in ParseCalls \cup StatsCalls \cup ClassifyCalls \cup CellCalls
  /\ effectsDeferred = FALSE
  /\ geocodeCalls = <<>>
  /\ splitRequests = <<>>

NextFn ==
  /\ \/ callParseGPX
     \/ callComputeTrackStats
     \/ callClassifyActivity
     \/ callBuildOverlayCell
  /\ UNCHANGED <<sessions, sessionsRef, rebuildSeqRef, builds, splits, files, issued,
                 split, geoCacheRef, lookups,
                 effectsDeferred, geocodeCalls, splitRequests>>

SpecFn == InitFn /\ [][NextFn]_vars

-----------------------------------------------------------------------------
(* Properties of the pure functions.                                        *)

(* the fixed order of the tie-break: bici, then futbol, then running        *)
rankOf(a) == CASE a = "bici" -> 1 [] a = "futbol" -> 2 [] a = "running" -> 3

(* C16: classifyActivity returns an activity of the highest score, and      *)
(* among the activities that share the highest score the first of bici,     *)
(* futbol, running.                                                         *)
C16_HighestScoreThenPriority ==
  callDone("classifyActivity") =>
    LET scores == scoresOf(call.stats)
    IN \A a \in ACTIVITIES \ {call.result} :
          \/ scores[call.result] > scores[a]
          \/ (scores[call.result] = scores[a] /\ rankOf(call.result) < rankOf(a))

(* C16 witness: bici and futbol share the highest score, running has less,  *)
(* and bici is returned.                                                    *)
C16_Witness ==
  /\ callDone("classifyActivity")
  /\ scoresOf(call.stats).bici = scoresOf(call.stats).futbol
  /\ scoresOf(call.stats).running < scoresOf(call.stats).bici
  /\ call.result = "bici"

(* C18: a cell whose value is at or below the threshold gets alpha 0, and a *)
(* cell whose value is above the threshold gets an alpha that is not 0.     *)
C18_ThresholdCellsTransparent ==
  callDone("buildOverlay") =>
    /\ (call.v <= call.threshold) => call.result = 0
    /\ (call.v > call.threshold) => call.result # 0

(* C18 witness: a cell whose value equals a positive threshold is           *)
(* transparent.                                                             *)
C18_Witness ==
  /\ callDone("buildOverlay")
  /\ call.threshold > 0
  /\ call.v = call.threshold
  /\ call.result = 0

(* the attribute is there and its text is a finite number                   *)
attrFinite(attr) == attr # <<>> /\ isFinite(parseFloat(attr[1]))

(* the points of the elements whose two coordinates are finite numbers, in  *)
(* document order                                                           *)
RECURSIVE retained(_)
retained(doc) ==
  IF doc = <<>> THEN <<>>
  ELSE LET el == Head(doc)
       IN IF attrFinite(el.lat) /\ attrFinite(el.lon)
          THEN <<[lat |-> parseFloat(el.lat[1]), lon |-> parseFloat(el.lon[1]),
                  time |-> el.time]>> \o retained(Tail(doc))
          ELSE retained(Tail(doc))

(* C19: parseGPX returns, in document order, the points of exactly the      *)
(* elements whose lat and lon attributes both parse to finite numbers; an   *)
(* element with a missing or unparseable coordinate gives no point.         *)
C19_OnlyFiniteCoordinatesRetained ==
  callDone("parseGPX") => call.result = retained(call.doc)

(* the speed samples of a track: 18 m / 5 s of every adjacent pair with two *)
(* finite timestamps and a positive elapsed time                            *)
speedSamples(pts) ==
  {<<18 * Abs(pts[i + 1].lat - pts[i].lat), 5 * (pts[i + 1].time - pts[i].time)>> :
     i \in {j \in 1..(Len(pts) - 1) :
              /\ isFinite(pts[j].time) /\ isFinite(pts[j + 1].time)
              /\ pts[j + 1].time - pts[j].time > 0}}

(* C20: maxSpeedKmh is a finite number, 0 when the track has no speed       *)
(* sample and else the greatest sample; pairs with zero, negative or        *)
(* missing elapsed time give no sample.                                     *)
C20_MaxSpeedFromPositiveElapsed ==
  callDone("computeTrackStats") =>
    LET r == call.result.maxSpeedKmh
        samples == speedSamples(call.points)
    IN /\ r[2] > 0
       /\ r[1] >= 0
       /\ \A s \in samples : r[1] * s[2] >= s[1] * r[2]
       /\ r[1] > 0 => \E s \in samples : r[1] * s[2] = s[1] * r[2]

(* C20 witness: a track with a pair of zero elapsed time and a pair of      *)
(* negative elapsed time, both between distinct places, and a positive      *)
(* maximum speed.                                                           *)
C20_Witness ==
  /\ callDone("computeTrackStats")
  /\ call.result.maxSpeedKmh[1] > 0
  /\ \E i \in 1..(Len(call.points) - 1) :
        /\ hasTime(call.points, i) /\ deltaSec(call.points, i) = 0
        /\ call.points[i].lat # call.points[i + 1].lat
  /\ \E i \in 1..(Len(call.points) - 1) :
        /\ hasTime(call.points, i) /\ deltaSec(call.points, i) < 0
        /\ call.points[i].lat # call.points[i + 1].lat


-----------------------------------------------------------------------------
(* The gap slider: updateSegmentGap called with any value, mergeSegments,   *)
(* and the segmentation calls settling in any order.                        *)

(* arguments of updateSegmentGap in tenths of a minute: not a number,       *)
(* infinite, negative, below 1, fractional, in range, above 60              *)
GapRequestValues == {NaN, Infinity, 0 - 30, 4, 15, 50, 1000}

NextGap ==
  \/ handleFiles
  \/ \E id \in sessionIds, gapMinutes \in GapRequestValues : updateSegmentGap(id, gapMinutes)
  \/ \E id \in sessionIds : mergeSegments(id)
  \/ \E n \in 1..Len(splits) : completeSplit(n)

SpecGap == Init /\ [][NextGap]_vars

(* C21: the segmentGapMinutes of every session is an integer between 1 and  *)
(* 60, whatever value updateSegmentGap was called with.                     *)
C21_GapWithinRange ==
  \A k \in 1..Len(sessions) : sessions[k].segmentGapMinutes \in 1..60

(* a gap change asked with 100 minutes has committed as 60                  *)
C21_Witness ==
  \E k \in 1..Len(sessions) :
    /\ sessions[k].segmentGapMinutes = 60
    /\ sessions[k].id \in DOMAIN splitRequests
    /\ splitRequests[sessions[k].id].kind = "gap"

(* no segmentation call and no raster build of session id is in flight      *)
operationsSettled(id) ==
  /\ \A n \in 1..Len(splits) : splits[n].id # id
  /\ \A n \in 1..Len(builds) : builds[n].id # id

(* the points of each segment of a session                                  *)
segmentPoints(s) == [k \in 1..Len(s.segments) |-> s.segments[k].points]

(* C24: once every operation of a session has completed, and its last       *)
(* segmentation request was an updateSegmentGap, its segmentGapMinutes is   *)
(* the clamped and rounded value of that request and its segments are the   *)
(* split of its points at that gap.                                         *)
C24_LastGapRequestWins ==
  \A k \in 1..Len(sessions) :
    LET s == sessions[k]
    IN (/\ s.id \in DOMAIN splitRequests
        /\ splitRequests[s.id].kind = "gap"
        /\ operationsSettled(s.id))
       => /\ s.segmentGapMinutes = splitRequests[s.id].gapMinutes
          /\ segmentPoints(s) = splitTrack(s.points, splitRequests[s.id].gapMinutes)

-----------------------------------------------------------------------------
(* Properties of the overlays that the sessions hold.                       *)

(* C22: the overlay of every segment that has one was rendered from the     *)
(* points and the bounds of that same segment, also when updateParams or    *)
(* setActiveSegment is called while a segmentation call is awaiting.        *)
C22_OverlayOfOwnSegment ==
  \A k \in 1..Len(sessions) :
    \A j \in 1..Len(sessions[k].segments) :
      LET seg == sessions[k].segments[j]
      IN seg.overlayUrl # noUrl =>
           /\ seg.overlayUrl[1].points = seg.points
           /\ seg.overlayUrl[1].bounds = seg.bounds

(* SessionBlock: activeSegment = segments[activeSegmentIndex] || segments[0] *)
(* || null and mapOverlayUrl = activeSegment?.overlayUrl || overlayUrl      *)
mapOverlayUrl(s) ==
  LET shown == IF s.activeSegmentIndex \in 0..(Len(s.segments) - 1)
               THEN s.activeSegmentIndex + 1
               ELSE IF Len(s.segments) > 0 THEN 1 ELSE 0
  IN IF shown # 0 /\ s.segments[shown].overlayUrl # noUrl
     THEN s.segments[shown].overlayUrl
     ELSE s.overlayUrl

(* C23: whenever no raster build and no segmentation call of a session is   *)
(* in flight, the overlay shown for its active segment was rendered with    *)
(* the current params of the session.                                       *)
C23_SettledOverlayHasCurrentParams ==
  \A k \in 1..Len(sessions) :
    LET s == sessions[k]
    IN (operationsSettled(s.id) /\ mapOverlayUrl(s) # noUrl)
       => areParamsEqual(mapOverlayUrl(s)[1].params, s.params)

-----------------------------------------------------------------------------
(* The operations under the schedule in which the effect that copies the    *)
(* state to sessionsRef runs as a step of its own.                          *)

InitLag ==
  /\ sessions = <<>>
  /\ sessionsRef = <<>>
  /\ rebuildSeqRef = <<>>
  /\ builds = <<>>
  /\ splits = <<>>
  /\ files \in Batches
  /\ issued = [rebuilds |-> 0, splits |-> 0]
  /\ split = splitIdle
  /\ geoCacheRef = <<>>
  /\ lookups = <<>>
  /\ call = callIdle
  /\ effectsDeferred = TRUE
  /\ geocodeCalls = <<>>
  /\ splitRequests = <<>>

LagPatches == {[sigma |-> 9]}

NextLag ==
  \/ handleFiles
  \/ sessionsRefEffect
  \/ \E id \in sessionIds, patch \in LagPatches : updateParams(id, patch)
  \/ \E id \in sessionIds, index \in IndexInputs : setActiveSegment(id, index)
  \/ \E id \in sessionIds, gapMinutes \in GapInputs : updateSegmentGap(id, gapMinutes)
  \/ \E id \in sessionIds : mergeSegments(id)
  \/ \E n \in 1..Len(builds) : completeRebuild(n)
  \/ \E n \in 1..Len(splits) : completeSplit(n)

SpecLag == InitLag /\ [][NextLag]_vars

(* C25: the activeSegmentIndex of every session that has segments is the    *)
(* index of one of them, after any interleaving of setActiveSegment,        *)
(* updateSegmentGap, mergeSegments and rebuild completions.                 *)
C25_ActiveIndexInRange ==
  \A k \in 1..Len(sessions) :
    Len(sessions[k].segments) > 0 =>
      sessions[k].activeSegmentIndex \in 0..(Len(sessions[k].segments) - 1)

(* C26: the top-level overlayUrl and bounds of a session are those of its   *)
(* segment at activeSegmentIndex, also when a rebuild of a segment          *)
(* completes around the time that segment is selected.                      *)
C26_TopLevelMirrorsActiveSegment ==
  \A k \in 1..Len(sessions) :
    LET s == sessions[k]
    IN s.activeSegmentIndex \in 0..(Len(s.segments) - 1) =>
         /\ s.overlayUrl = s.segments[s.activeSegmentIndex + 1].overlayUrl
         /\ s.bounds = s.segments[s.activeSegmentIndex + 1].bounds

-----------------------------------------------------------------------------
(* splitTrack at two gaps.                                                  *)

(* C27: for positive gaps g1 <= g2, splitTrack(track, g2) returns at most   *)
(* as many segments as splitTrack(track, g1); g1 is the gap of the finished *)
(* run, g2 any gap of GapValues.                                            *)
C27_LargerGapFewerSegments ==
  splitDone =>
    \A g2 \in GapValues :
      (0 < split.gapMinutes /\ split.gapMinutes <= g2) =>
         Len(splitTrack(split.points, g2)) <= Len(split.result)

-----------------------------------------------------------------------------
(* The calls of reverseGeocode over a run.                                  *)

(* C28: reverseGeocode is called at most once for each rounded-coordinate   *)
(* key, also when several sessions of one key are created before the first  *)
(* lookup has returned.                                                     *)
C28_OneLookupPerKey ==
  \A i, j \in 1..Len(geocodeCalls) :
    i # j => geocodeCalls[i] # geocodeCalls[j]

-----------------------------------------------------------------------------
(* The session list as a whole.                                             *)

(* the positions whose record the step changes                              *)
changedSessions == {k \in 1..Len(sessions) : sessions'[k] # sessions[k]}

(* C29: a step that adds no session changes the record of at most one       *)
(* session; no session is ever removed; a new session is inserted at the    *)
(* front and the records of the others stay as they are.  This holds for    *)
(* every pair of sessions, two created from files of the same name          *)
(* included.                                                                *)
C29_OtherSessionsUntouched ==
  [][/\ Len(sessions') >= Len(sessions)
     /\ Len(sessions') = Len(sessions) => Cardinality(changedSessions) <= 1
     /\ Len(sessions') > Len(sessions) => Tail(sessions') = sessions]_vars

-----------------------------------------------------------------------------
(* The pause analysis of AnalysisModal (App.jsx).  Speeds are in tenths of  *)
(* a km/h, times in seconds.                                                *)

WINDOW_SECONDS == 30

MaxPoints == 5

ElapsedSteps == {1, 60}
SpeedValues == {0, 40}

(* elapsedSeconds of point k (from 1) of a track with the given time steps  *)
RECURSIVE elapsedAt(_, _)
elapsedAt(steps, k) == IF k = 1 THEN 0 ELSE elapsedAt(steps, k - 1) + steps[k - 1]

(* what processGpxPoints returns: the first point has elapsedSeconds 0 and  *)
(* speed 0, every later one its own elapsed time and speed                  *)
ProcessedPoints ==
  UNION {{[k \in 1..n |->
             [elapsedSeconds |-> elapsedAt(steps, k),
              speed |-> IF k = 1 THEN 0 ELSE speeds[k - 1]]] :
            steps \in [1..(n - 1) -> ElapsedSteps],
            speeds \in [1..(n - 1) -> SpeedValues]} :
         n \in 2..MaxPoints}

(* params of AnalysisModal: the default speedThreshold 1.5 km/h, and the    *)
(* smallest minDuration of its slider                                       *)
PauseParams == [speedThreshold |-> 15, minDuration |-> 60]

(* the locals of handleFindPauses before the loop; windowPoints holds the   *)
(* indices of its points                                                    *)
pausesInit == [pauses |-> <<>>, currentPauseStartIdx |-> 0 - 1, windowPoints |-> <<>>]

RECURSIVE speedSum(_, _)
speedSum(pp, window) ==
  IF window = <<>> THEN 0 ELSE pp[Head(window) + 1].speed + speedSum(pp, Tail(window))

(* pauses with the pause startIdx..endIdx pushed when it is long enough     *)
pushPause(pp, pauses, startIdx, endIdx, minDuration) ==
  LET duration == pp[endIdx + 1].elapsedSeconds - pp[startIdx + 1].elapsedSeconds
  IN IF endIdx >= startIdx /\ duration >= minDuration
     THEN Append(pauses, [startIdx |-> startIdx, endIdx |-> endIdx,
                          startTime |-> pp[startIdx + 1].elapsedSeconds,
                          endTime |-> pp[endIdx + 1].elapsedSeconds,
                          duration |-> duration])
     ELSE pauses

(* one iteration of the loop of handleFindPauses, i counted from 0          *)
pausesStep(pp, params, st, i) ==
  LET windowStartTime == pp[i + 1].elapsedSeconds - WINDOW_SECONDS
      inWindow(k) == pp[k + 1].elapsedSeconds >= windowStartTime
      window == SelectSeq(Append(st.windowPoints, i), inWindow)
      isPaused == IF Len(window) > 0
                  THEN speedSum(pp, window) < params.speedThreshold * Len(window)
                  ELSE 0 < params.speedThreshold
      matches == {k \in 0..(Len(pp) - 1) :
                    pp[k + 1].elapsedSeconds = pp[window[1] + 1].elapsedSeconds}
      found == IF matches = {} THEN i ELSE minOf(matches)
  IN IF isPaused /\ st.currentPauseStartIdx = 0 - 1
     THEN [st EXCEPT !.windowPoints = window, !.currentPauseStartIdx = found]
     ELSE IF ~isPaused /\ st.currentPauseStartIdx # 0 - 1
     THEN [pauses |-> pushPause(pp, st.pauses, st.currentPauseStartIdx, i - 1,
                                params.minDuration),
           currentPauseStartIdx |-> 0 - 1,
           windowPoints |-> window]
     ELSE [st EXCEPT !.windowPoints = window]

RECURSIVE pausesLoop(_, _, _, _)
pausesLoop(pp, params, st, i) ==
  IF i < Len(pp) THEN pausesLoop(pp, params, pausesStep(pp, params, st, i), i + 1) ELSE st

(* the pause that is open when the loop ends                                *)
pausesFinish(pp, params, st) ==
  IF st.currentPauseStartIdx # 0 - 1
  THEN pushPause(pp, st.pauses, st.currentPauseStartIdx, Len(pp) - 1, params.minDuration)
  ELSE st.pauses

(* sorted with its element p put behind the elements at least as long       *)
insertByDuration(sorted, p) ==
  LET ahead == {k \in 0..Len(sorted) :
                  \A j \in 1..k : sorted[j].duration >= p.duration}
      k == maxOf(ahead)
  IN SubSeq(sorted, 1, k) \o <<p>> \o SubSeq(sorted, k + 1, Len(sorted))

RECURSIVE sortByDuration(_)
(* pauses.sort((a, b) => b.duration - a.duration)                           *)
sortByDuration(pauses) ==
  IF pauses = <<>> THEN <<>>
  ELSE insertByDuration(sortByDuration(SubSeq(pauses, 1, Len(pauses) - 1)),
                        pauses[Len(pauses)])

(* the list that handleFindPauses passes to setFoundPauses                  *)
handleFindPauses(pp, params) ==
  IF Len(pp) < 2 THEN <<>>
  ELSE sortByDuration(pausesFinish(pp, params, pausesLoop(pp, params, pausesInit, 0)))

PauseCalls ==
  {[pc |-> "start", fn |-> "handleFindPauses", processedPoints |-> pp,
    params |-> PauseParams, result |-> <<>>] : pp \in ProcessedPoints}

callHandleFindPauses ==
  /\ callStarts("handleFindPauses")
  /\ call' = [call EXCEPT !.pc = "done",
                          !.result = handleFindPauses(call.processedPoints, call.params)]

InitPauses ==
  /\ sessions = <<>>
  /\ sessionsRef = <<>>
  /\ rebuildSeqRef = <<>>
  /\ builds = <<>>
  /\ splits = <<>>
  /\ files = <<>>
  /\ issued = [rebuilds |-> 0, splits |-> 0]
  /\ split = splitIdle
  /\ geoCacheRef = <<>>
  /\ lookups = <<>>
  /\ call \in PauseCalls
  /\ effectsDeferred = FALSE
  /\ geocodeCalls = <<>>
  /\ splitRequests = <<>>

NextPauses ==
  /\ callHandleFindPauses
  /\ UNCHANGED <<sessions, sessionsRef, rebuildSeqRef, builds, splits, files, issued,
                 split, geoCacheRef, lookups, effectsDeferred, geocodeCalls, splitRequests>>

SpecPauses == InitPauses /\ [][NextPauses]_vars

(* C30: the pauses that handleFindPauses reports have startIdx <= endIdx    *)
(* and cover index ranges startIdx..endIdx that are pairwise disjoint.      *)
C30_PausesDisjoint ==
  callDone("handleFindPauses") =>
    /\ \A k \in 1..Len(call.result) : call.result[k].startIdx <= call.result[k].endIdx
    /\ \A j, k \in 1..Len(call.result) :
         j # k => \/ call.result[j].endIdx < call.result[k].startIdx
                  \/ call.result[k].endIdx < call.result[j].startIdx


=============================================================================
